---- MODULE Spec2Model ----
(***************************************************************************)
(* Client side of the asynchronous image-job lifecycle of lite.ai.web:     *)
(* the Home view handlers (credit check, submit), the ghibli store         *)
(* actions (the WithProgress actions, processImage, faceSwap), the poll    *)
(* loop                                                                    *)
(* pollTaskProgress and the download button of ImageComparison.            *)
(*                                                                         *)
(* One action of the model is one browser task: the arrival of a click, a  *)
(* network response or a timer, together with every continuation that     *)
(* runs before the code awaits the next request or timer.                  *)
(*                                                                         *)
(* Message literals of the source are Chinese; each is represented by an   *)
(* ASCII string and the definition names the literal's source line.        *)
(***************************************************************************)
EXTENDS Integers, Sequences, FiniteSets, TLC

(* ------------------------------ bounds --------------------------------- *)
\* number of handler invocations that can be suspended at the same time
NumInvocations == 2
\* number of jobs submitted per run
MaxJobs == 2
\* the attempt budget of pollTaskProgress; the source uses 300
\* (part_004:777), scaled down so that exhausting it is reachable
maxPolls == 3
\* number of clicks on the download button per run
MaxDownloads == 2

Invocations == 1..NumInvocations

(* --------------------------- program constants ------------------------- *)
ImageCost == 10
FaceSwapCost == 15
DownloadCost == 10

(* ------------------------------ messages ------------------------------- *)
MsgTaskNotFound == "task does not exist or has expired"
MsgPollTimeout == "image generation timed out, please retry"
MsgJobFailedDefault == "image generation failed"
MsgQueryFailed == "progress query failed"
MsgStartFailed == "failed to start task"
MsgStartGhibliFailed == "failed to start ghibli style task"
MsgProcessFailed == "processing failed"
MsgFaceSwapFailed == "face swap failed"
MsgRequestTimeout == "request timed out, please retry"
MsgServerError == "server error"
MsgNoConnection == "cannot connect to server, check the network"
MsgUnknownType == "unknown processing type"
MsgLoginFirst == "please log in first"
MsgInsufficient == "insufficient credits"

(* ------------------------------- values -------------------------------- *)
NoTask == [taskId |-> 0, progress |-> 0, status |-> "none", message |-> ""]
NoUrl == [base |-> "", file |-> 0]
NoErr == [axios |-> FALSE, code |-> "", status |-> 0, detail |-> "", message |-> ""]
NoBody == [success |-> FALSE, task_id |-> 0, status |-> "", progress |-> 0,
           message |-> "", result_url |-> NoUrl, error |-> ""]
NoToken == "none"
Token == "access_token"
NoUser == [credits |-> -1]
NoResult == [t |-> "none", url |-> NoUrl, err |-> NoErr]
\* no successful progress answer seen yet
NoSnapshot == [status |-> "none", result_url |-> NoUrl, error |-> ""]

\* a plain JavaScript Error carrying a message
PlainError(m) == [axios |-> FALSE, code |-> "", status |-> 0, detail |-> "", message |-> m]

\* errors axios rejects a request with: a request timeout, a network failure
\* (no response), and responses with a non-2xx status, with or without a
\* detail text in the body
AxiosErrors ==
  { [axios |-> TRUE, code |-> "ECONNABORTED", status |-> 0, detail |-> "", message |-> "timeout exceeded"],
    [axios |-> TRUE, code |-> "ERR_NETWORK", status |-> 0, detail |-> "", message |-> "Network Error"],
    [axios |-> TRUE, code |-> "ERR_BAD_REQUEST", status |-> 404, detail |-> "task not found", message |-> "status 404"],
    [axios |-> TRUE, code |-> "ERR_BAD_RESPONSE", status |-> 500, detail |-> "", message |-> "status 500"] }

Returned(u) == [t |-> "return", url |-> u, err |-> NoErr]
Thrown(e) == [t |-> "throw", url |-> NoUrl, err |-> e]
FallThrough == [t |-> "fallthrough", url |-> NoUrl, err |-> NoErr]

\* JavaScript's  a || b  on strings: the empty string is falsy
OrElse(a, b) == IF a = "" THEN b ELSE a

(* ------------------------------- inputs -------------------------------- *)
Statuses == {"pending", "running", "completed", "failed"}
Progresses == {0, 100}
Messages == {"", "working"}
ErrorTexts == {"", "engine timeout"}
Kinds == {"ghibli_style", "grayscale", "creative_upscale", "text_to_image", "face_swap"}

\* the artifact URL the backend reports for job j: relative ("/static/...")
\* or absolute ("http...")
Url(b, j) == [base |-> b, file |-> j]
ResultUrls(j) == {Url("", j), Url("http://cdn", j)}

\* bodies of a 2xx answer to GET /api/progress/<task>.  A successful body
\* carries a result_url only with status completed (and may lack it) and an
\* error text only with status failed (and may lack it); an unsuccessful
\* body carries neither.
ProgressBodies(task) ==
  { [success |-> TRUE, task_id |-> task, status |-> st, progress |-> pr,
     message |-> "working", result_url |-> u, error |-> e] :
       st \in Statuses, pr \in Progresses,
       u \in ResultUrls(task) \cup {NoUrl}, e \in ErrorTexts }
  \cup
  { [success |-> FALSE, task_id |-> task, status |-> st, progress |-> 0,
     message |-> m, result_url |-> NoUrl, error |-> ""] :
       st \in Statuses, m \in Messages }

ProgressResponses(task) ==
  { [ok |-> TRUE, data |-> d, err |-> NoErr] :
       d \in { b \in ProgressBodies(task) :
                 /\ (b.result_url # NoUrl => b.status = "completed")
                 /\ (b.error # "" => b.status = "failed") } }
  \cup { [ok |-> FALSE, data |-> NoBody, err |-> e] : e \in AxiosErrors }

(* --------------------------- pure functions ---------------------------- *)
\* result_url.startsWith('http') ? result_url : `${API_BASE_URL}${result_url}`
withApiBase(u) == IF u.base # "" THEN u ELSE [u EXCEPT !.base = "http://api"]

\* props.result.split('/').pop()
fileNameOf(u) == u.file

\* the catch block shared by the store actions: an axios error is replaced
\* by a message chosen by its kind, anything else by the action's
\* unknown-error message
storeCatch(error, unknownMsg) ==
  IF error.axios /\ error.code = "ECONNABORTED" THEN PlainError(MsgRequestTimeout)
  ELSE IF error.axios /\ error.status # 0 THEN PlainError(OrElse(error.detail, MsgServerError))
  ELSE IF error.axios THEN PlainError(MsgNoConnection)
  ELSE PlainError(unknownMsg)

\* the last throw of each store action's catch block
unknownErrorMsg(kind) ==
  CASE kind = "convertToGhibliStyleWithProgress" -> "unknown error during ghibli style conversion"
    [] kind = "creativeUpscaleImageWithProgress" -> "unknown error while processing the image"
    [] kind = "generateImageWithProgress" -> "unknown error while generating the image"
    [] kind = "faceSwap" -> "unknown error during face swap"
    [] OTHER -> "unknown error while processing the picture"

\* pollTry with the return on completion forgotten: the loop goes on
pollTryKeepsPolling(r) ==
  IF ~r.ok THEN Thrown(r.err)
  ELSE IF r.data.success
       THEN IF r.data.status = "failed"
              THEN Thrown(PlainError(OrElse(r.data.error, MsgJobFailedDefault)))
            ELSE FallThrough
       ELSE Thrown(PlainError(OrElse(r.data.message, MsgQueryFailed)))

\* the try block of one iteration of pollTaskProgress, given the settled
\* progress request
pollTry(r) ==
  IF ~r.ok THEN Thrown(r.err)
  ELSE IF r.data.success
       THEN IF r.data.status = "completed" /\ r.data.result_url # NoUrl
              THEN Returned(withApiBase(r.data.result_url))
            ELSE IF r.data.status = "failed"
              THEN Thrown(PlainError(OrElse(r.data.error, MsgJobFailedDefault)))
            ELSE FallThrough
       ELSE Thrown(PlainError(OrElse(r.data.message, MsgQueryFailed)))

\* pollCatch rethrowing every axios error
pollCatchAbortsOnAnyAxiosError(error) ==
  IF error.axios
    THEN Thrown(PlainError(MsgTaskNotFound))
    ELSE FallThrough

\* pollCatch without the 404 test: every error is retried
pollCatchRetries404(error) == FallThrough

\* the catch block of the iteration: only a 404 answer leaves the loop
pollCatch(error) ==
  IF error.axios /\ error.status = 404
    THEN Thrown(PlainError(MsgTaskNotFound))
    ELSE FallThrough

\* the loop condition off by one: one attempt too many
loopContinuesOneMore(n) == n <= maxPolls

\* the loop condition  polls < maxPolls
loopContinues(n) == n < maxPolls

\* the test of the credit check passing on any answer
checkPassedOnAnyAnswer(r) == r.ok

\* the handlers' test of the credit check's answer: creditCheck.success
checkPassed(r) == r.ok /\ r.success

\* the test of the submission's answer without the success flag
syncSucceededOnAnyUrl(r) == r.url # NoUrl

\* processImage's and faceSwap's test of the submission's answer:
\* response.data.success && response.data.processed_image_url
syncSucceeded(r) == r.success /\ r.url # NoUrl

\* pollTaskProgress ending with a write request about the task
pollWritesCancelOnThrow(it) == IF it.t = "throw" THEN {"cancel"} ELSE {}

\* the requests about the task, other than the GET of its progress, that
\* pollTaskProgress sends when an iteration or the loop ends with it: none
pollWrites(it) == {}

\* one iteration up to the sleep: return, throw out of the loop, or go on
pollIteration(r) ==
  LET a == pollTry(r) IN IF a.t = "throw" THEN pollCatch(a.err) ELSE a


(* ------------------------------- state --------------------------------- *)
VARIABLES
  \* Home.vue
  processing, originalImage, resultImage, selectedProcessing, selectedFile,
  prompt, sourceFile, targetFile, authModalVisible,
  \* auth store
  isAuthenticated, user, token,
  \* the 'token' entry of localStorage, the Authorization header of the
  \* axios defaults, and whether the /me request of the store's
  \* initialisation is in flight
  stored, header, initMe,
  \* ImageUpload: its own selectedFile, the 'upload' events emitted so far,
  \* the file of the last change or drop event, the number of those events,
  \* and the last alert
  uploadSelectedFile, uploads, offered, picks, uploadAlert,
  \* ghibli store
  isProcessing, currentTask, processingHistory,
  \* one handler invocation: where it is suspended and its locals
  pc, handler, storeAction, taskId, polls,
  \* jobs submitted so far, the job of each invocation, and the jobs whose
  \* completion a store action has observed
  jobs, jobOf, completedJobs,
  \* requests sent and answers seen by each invocation
  checkReqs, checkAnswer, submitReqs, progressReqs, lastPoll,
  failedSeen, terminalSeen, completedSeen, shown, writeReqs,
  \* how pollTaskProgress and the store action ended, and what was alerted
  pollResult, storeResult, alerts,
  \* ImageComparison download button and the credit ledger behind it
  downloadReqs, served, mePending, dlAlert, balance, debitedJobs,
  \* how many times the balance changed for each job
  charged,
  \* the backend's Progress Tracker: the record of each job
  tracker,
  \* Home.vue's authMode and the refs and the form of AuthModal.vue
  authMode, isLogin, loading, sendingCode, countdown, emailVerified,
  codeStatus, formEmail, formCode,
  \* the setInterval timers of startCountdown that are still running
  timers,
  \* handleSubmit: where it is suspended, and the email and code passed to
  \* the request in flight
  submitPc, argEmail, argCode,
  \* clicks on the send-code and on the submit button so far
  sends, submits,
  \* seconds since the last code was sent, the (email, code) pairs whose
  \* verification succeeded, and how the register call went
  elapsed, verifiedPairs, registerResult, loginDone, stepFailed

homeVars == <<processing, originalImage, resultImage, selectedProcessing,
              selectedFile, prompt, sourceFile, targetFile, authModalVisible>>
storeVars == <<isProcessing, currentTask, processingHistory>>
procVars == <<pc, handler, storeAction, taskId, polls>>
jobVars == <<jobs, jobOf, completedJobs>>
netVars == <<checkReqs, checkAnswer, submitReqs, progressReqs, lastPoll,
             failedSeen, terminalSeen, completedSeen, shown, writeReqs>>
outVars == <<pollResult, storeResult, alerts>>
dlVars == <<downloadReqs, served, mePending, dlAlert, balance, debitedJobs, charged>>
authVars == <<isAuthenticated, user, token, stored, header, initMe>>
srvVars == <<tracker>>
formVars == <<isLogin, emailVerified, codeStatus, formEmail, formCode, countdown>>
modalVars == <<authMode, formVars, loading, sendingCode, timers, submitPc, argEmail,
               argCode, sends, submits, elapsed, verifiedPairs, registerResult,
               loginDone, stepFailed>>
uploadVars == <<uploadSelectedFile, uploads, offered, picks, uploadAlert>>
vars == <<homeVars, authVars, storeVars, procVars, jobVars, netVars, outVars, dlVars,
          srvVars, modalVars, uploadVars>>

AsyncActions == {"convertToGhibliStyleWithProgress",
                 "creativeUpscaleImageWithProgress",
                 "generateImageWithProgress"}
SyncActions == {"processImage", "faceSwap"}

(* ----------------------------- user input ------------------------------ *)
\* the template branch holding ImageUpload and the run button: not the
\* face-swap panel and not the progress panel (Home.vue:169, 243-258)
ImageUploadVisible ==
  /\ selectedProcessing # "face_swap"
  /\ ~ ( /\ selectedProcessing \in {"ghibli_style", "creative_upscale"}
         /\ processing
         /\ currentTask # NoTask )

\* change and drop events of ImageUpload
MaxPicks == 2

\* the size limit of processFile, 10 * 1024 * 1024 bytes
MaxFileSize == 10485760

\* selectedFile of ImageUpload before a file was accepted
NoFile == [size |-> 0, type |-> <<>>]

\* the files a change or a drop event can carry: sizes around the limit of
\* processFile, MIME types as sequences of characters (image/png, image/,
\* imag, text/image/, none)
Files ==
  [size : {1, MaxFileSize - 1, MaxFileSize, MaxFileSize + 1},
   type : { <<"i", "m", "a", "g", "e", "/", "p", "n", "g">>,
            <<"i", "m", "a", "g", "e", "/">>,
            <<"i", "m", "a", "g">>,
            <<"t", "e", "x", "t", "/", "i", "m", "a", "g", "e", "/">>,
            <<>> }]

\* type.startsWith('image/')
startsWithImage(t) ==
  /\ Len(t) >= 6
  /\ SubSeq(t, 1, 6) = <<"i", "m", "a", "g", "e", "/">>

\* processFile that looks at the size only
alertForSizeOnly(file) ==
  IF file.size > MaxFileSize THEN "size" ELSE ""

\* the alert processFile returns after, "" when it returns after none
alertFor(file) ==
  IF file.size > MaxFileSize THEN "size"
  ELSE IF ~startsWithImage(file.type) THEN "type"
  ELSE ""

\* processFile, called by handleFileSelect of ImageUpload with the file of
\* the input's change event: an accepted file is stored and emitted, and
\* the emit runs handleFileSelect of Home
processFile(file) ==
  /\ ImageUploadVisible
  /\ picks < MaxPicks
  /\ picks' = picks + 1
  /\ offered' = file
  /\ uploadAlert' = alertFor(file)
  /\ IF alertFor(file) = ""
       THEN /\ uploadSelectedFile' = file
            /\ uploads' = uploads + 1
            /\ selectedFile' = TRUE
            /\ originalImage' = FALSE
            /\ resultImage' = NoUrl
       ELSE UNCHANGED <<uploadSelectedFile, uploads, selectedFile, originalImage,
                        resultImage>>
  /\ UNCHANGED <<processing, selectedProcessing, prompt, sourceFile, targetFile,
                 authModalVisible, authVars, storeVars, procVars, jobVars, netVars,
                 outVars, dlVars, srvVars, modalVars>>

\* handleDrop: the loading prop is false (Home.vue:259); a file whose type
\* does not start with image/ is dropped without a word
handleDrop(file) ==
  IF startsWithImage(file.type)
    THEN processFile(file)
    ELSE /\ ImageUploadVisible
         /\ picks < MaxPicks
         /\ picks' = picks + 1
         /\ offered' = file
         /\ UNCHANGED <<uploadSelectedFile, uploads, uploadAlert, homeVars, authVars,
                        storeVars, procVars, jobVars, netVars, outVars, dlVars,
                        srvVars, modalVars>>

\* handleFileSelect: a file chosen in ImageUpload clears the shown result
handleFileSelect ==
  /\ ImageUploadVisible
  /\ selectedFile' = TRUE
  /\ originalImage' = FALSE
  /\ resultImage' = NoUrl
  /\ UNCHANGED <<processing, selectedProcessing, prompt, sourceFile, targetFile,
                 authModalVisible, authVars, storeVars, procVars, jobVars, netVars,
                 outVars, dlVars, srvVars, modalVars, uploadVars>>

\* the processing-type buttons
SelectProcessing(k) ==
  /\ selectedProcessing # k
  /\ selectedProcessing' = k
  /\ UNCHANGED <<processing, originalImage, resultImage, selectedFile, prompt,
                 sourceFile, targetFile, authModalVisible, authVars,
                 storeVars, procVars, jobVars, netVars, outVars, dlVars, srvVars, modalVars, uploadVars>>

\* typing into the prompt textarea (v-model)
EditPrompt(t) ==
  /\ selectedProcessing = "text_to_image"
  /\ prompt # t
  /\ prompt' = t
  /\ UNCHANGED <<processing, originalImage, resultImage, selectedProcessing,
                 selectedFile, sourceFile, targetFile, authModalVisible,
                 authVars, storeVars, procVars, jobVars, netVars, outVars, dlVars, srvVars, modalVars, uploadVars>>

\* handleSourceSelect / handleSourceDrop / clearSourceFile
SetSourceFile(b) ==
  /\ selectedProcessing = "face_swap"
  /\ sourceFile # b
  /\ sourceFile' = b
  /\ UNCHANGED <<processing, originalImage, resultImage, selectedProcessing,
                 selectedFile, prompt, targetFile, authModalVisible,
                 authVars, storeVars, procVars, jobVars, netVars, outVars, dlVars, srvVars, modalVars, uploadVars>>

\* handleTargetSelect / handleTargetDrop / clearTargetFile
SetTargetFile(b) ==
  /\ selectedProcessing = "face_swap"
  /\ targetFile # b
  /\ targetFile' = b
  /\ UNCHANGED <<processing, originalImage, resultImage, selectedProcessing,
                 selectedFile, prompt, sourceFile, authModalVisible,
                 authVars, storeVars, procVars, jobVars, netVars, outVars, dlVars, srvVars, modalVars, uploadVars>>

\* setToken that leaves the Authorization header as it is
tokenSetWithoutHeader(t) ==
  [token |-> t, stored |-> t, header |-> header, isAuthenticated |-> TRUE,
   user |-> user]

\* what setToken(t) leaves in the store, in localStorage and in the axios
\* defaults
tokenSet(t) ==
  [token |-> t, stored |-> t, header |-> t, isAuthenticated |-> TRUE, user |-> user]

\* clearToken that leaves the entry of localStorage in place
clearedKeepsStorage ==
  [token |-> NoToken, stored |-> stored, header |-> NoToken,
   isAuthenticated |-> FALSE, user |-> NoUser]

\* what clearToken leaves
cleared ==
  [token |-> NoToken, stored |-> NoToken, header |-> NoToken,
   isAuthenticated |-> FALSE, user |-> NoUser]

\* the assignments of setToken or clearToken
Session(s) ==
  /\ token' = s.token
  /\ stored' = s.stored
  /\ header' = s.header
  /\ isAuthenticated' = s.isAuthenticated
  /\ user' = s.user

\* the auth store's setToken (after a login) and clearToken (logout)
setToken ==
  /\ ~isAuthenticated
  /\ Session(tokenSet(Token))
  /\ UNCHANGED <<initMe, homeVars, storeVars, procVars, jobVars, netVars, outVars, dlVars, srvVars, modalVars, uploadVars>>

clearToken ==
  /\ isAuthenticated
  /\ Session(cleared)
  /\ UNCHANGED <<initMe, homeVars, storeVars, procVars, jobVars, netVars, outVars, dlVars, srvVars, modalVars, uploadVars>>


(* ------------------------ opening the auth modal ----------------------- *)
\* the first value of an input field
Empty == ""

\* AuthModal's resetForm: the fields, the verified flag, the status line and
\* the countdown (the username and the password are not modelled)
resetForm ==
  /\ formEmail' = Empty
  /\ formCode' = Empty
  /\ emailVerified' = FALSE
  /\ codeStatus' = "none"
  /\ countdown' = 0

\* Home.vue's showAuthModal, with the watcher of AuthModal on props.mode
showAuthModal(mode) ==
  /\ authMode' = mode
  /\ authModalVisible' = TRUE
  /\ IF authMode # mode
       THEN isLogin' = (mode = "login") /\ resetForm
       ELSE UNCHANGED formVars
  /\ UNCHANGED <<loading, sendingCode, timers, submitPc, argEmail, argCode, sends,
                 submits, elapsed, verifiedPairs, registerResult, loginDone,
                 stepFailed>>

(* --------------------------- Home.vue handlers ------------------------- *)
\* what can stand in the prompt textarea: nothing, white space, a text
Prompts == {"", " ", "a cat"}

\* String.prototype.trim on those values
trim(t) == IF t = " " THEN "" ELSE t

\* the button of each handler is rendered and not disabled
ButtonEnabled(h) ==
  CASE h = "handleImageProcess" -> ImageUploadVisible /\ selectedFile /\ ~processing
    [] h = "handleTextToImage" ->
         selectedProcessing = "text_to_image" /\ ~processing /\ trim(prompt) # ""
    [] h = "handleFaceSwap" ->
         selectedProcessing = "face_swap" /\ sourceFile /\ targetFile /\ ~processing

\* the guard in front of the handler's try block
HasAttachments(h) ==
  CASE h = "handleImageProcess" -> selectedFile
    [] h = "handleTextToImage" -> TRUE
    [] h = "handleFaceSwap" -> sourceFile /\ targetFile

\* the cost passed to authStore.checkCredits
CostOf(h) == IF h = "handleFaceSwap" THEN FaceSwapCost ELSE ImageCost

Handlers == {"handleImageProcess", "handleTextToImage", "handleFaceSwap"}

\* a click: the invocation starts afresh and the handler runs up to its
\* first await (the credit check)
Click(p, h) ==
  /\ pc[p] \in {"idle", "done"}
  /\ \A q \in Invocations : q < p => pc[q] \notin {"idle", "done"}
  /\ jobs < MaxJobs
  /\ ButtonEnabled(h)
  /\ handler' = [handler EXCEPT ![p] = h]
  /\ storeAction' = [storeAction EXCEPT ![p] = "none"]
  /\ taskId' = [taskId EXCEPT ![p] = 0]
  /\ polls' = [polls EXCEPT ![p] = 0]
  /\ jobOf' = [jobOf EXCEPT ![p] = 0]
  /\ checkAnswer' = [checkAnswer EXCEPT ![p] = "none"]
  /\ submitReqs' = [submitReqs EXCEPT ![p] = 0]
  /\ progressReqs' = [progressReqs EXCEPT ![p] = 0]
  /\ lastPoll' = [lastPoll EXCEPT ![p] = "none"]
  /\ failedSeen' = [failedSeen EXCEPT ![p] = "none"]
  /\ terminalSeen' = [terminalSeen EXCEPT ![p] = FALSE]
  /\ completedSeen' = [completedSeen EXCEPT ![p] = NoUrl]
  /\ shown' = [shown EXCEPT ![p] = NoSnapshot]
  /\ writeReqs' = [writeReqs EXCEPT ![p] = {}]
  /\ pollResult' = [pollResult EXCEPT ![p] = NoResult]
  /\ storeResult' = [storeResult EXCEPT ![p] = NoResult]
  /\ IF ~HasAttachments(h)
       THEN /\ pc' = [pc EXCEPT ![p] = "done"]
            /\ alerts' = [alerts EXCEPT ![p] = ""]
            /\ checkReqs' = [checkReqs EXCEPT ![p] = 0]
            /\ UNCHANGED <<processing, authModalVisible, modalVars>>
     ELSE IF ~isAuthenticated
       THEN /\ alerts' = [alerts EXCEPT ![p] = MsgLoginFirst]
            /\ showAuthModal("login")
            /\ processing' = FALSE
            /\ pc' = [pc EXCEPT ![p] = "done"]
            /\ checkReqs' = [checkReqs EXCEPT ![p] = 0]
     ELSE /\ checkReqs' = [checkReqs EXCEPT ![p] = CostOf(h)]
          /\ pc' = [pc EXCEPT ![p] = "check"]
          /\ alerts' = [alerts EXCEPT ![p] = ""]
          /\ UNCHANGED <<processing, authModalVisible, modalVars>>
  /\ UNCHANGED <<originalImage, resultImage, selectedProcessing, selectedFile,
                 prompt, sourceFile, targetFile, authVars, storeVars,
                 jobs, completedJobs, dlVars, srvVars, uploadVars>>

\* answers to POST credits/check
CheckResponses ==
  { [ok |-> TRUE, success |-> b, err |-> NoErr] : b \in BOOLEAN }
  \cup { [ok |-> FALSE, success |-> FALSE, err |-> e] : e \in AxiosErrors }

\* the store action the handler calls once the check passed; "throw" when
\* it throws before calling one
ActionCalled(h) ==
  CASE h = "handleImageProcess" ->
         ( CASE selectedProcessing = "ghibli_style" -> "convertToGhibliStyleWithProgress"
             [] selectedProcessing = "grayscale" -> "processImage"
             [] selectedProcessing = "creative_upscale" -> "creativeUpscaleImageWithProgress"
             [] OTHER -> "throw" )
    [] h = "handleTextToImage" -> "generateImageWithProgress"
    [] h = "handleFaceSwap" -> IF sourceFile THEN "faceSwap" ELSE "throw"

\* the error thrown in that case
ThrownBeforeCall(h) ==
  IF h = "handleImageProcess" THEN PlainError(MsgUnknownType)
  ELSE PlainError("TypeError: createObjectURL")

\* the handler's catch and finally, or its last assignment, once the store
\* action has settled with res
HomeSettle(p, res) ==
  /\ storeResult' = [storeResult EXCEPT ![p] = res]
  /\ resultImage' = IF res.t = "return" THEN res.url ELSE resultImage
  /\ alerts' = [alerts EXCEPT ![p] = IF res.t = "throw" THEN res.err.message ELSE @]
  /\ processing' = FALSE
  /\ pc' = [pc EXCEPT ![p] = "done"]

\* the credit check settles: the handler refuses, fails, or submits the job
CheckCreditsResponse(p, r) ==
  /\ pc[p] = "check"
  /\ checkAnswer' = [checkAnswer EXCEPT ![p] =
       IF ~r.ok THEN "error" ELSE IF r.success THEN "sufficient" ELSE "insufficient"]
  /\ IF ~checkPassed(r)
       THEN /\ alerts' = [alerts EXCEPT ![p] =
                 IF ~r.ok THEN r.err.message ELSE MsgInsufficient]
            /\ processing' = FALSE
            /\ pc' = [pc EXCEPT ![p] = "done"]
            /\ UNCHANGED <<originalImage, resultImage, isProcessing, currentTask,
                           storeAction, submitReqs, storeResult, jobs, jobOf>>
     ELSE IF ActionCalled(handler[p]) = "throw"
       THEN /\ originalImage' = IF handler[p] = "handleImageProcess" THEN TRUE ELSE originalImage
            /\ alerts' = [alerts EXCEPT ![p] = ThrownBeforeCall(handler[p]).message]
            /\ processing' = FALSE
            /\ pc' = [pc EXCEPT ![p] = "done"]
            /\ UNCHANGED <<resultImage, isProcessing, currentTask, storeAction,
                           submitReqs, storeResult, jobs, jobOf>>
     ELSE /\ processing' = TRUE
          /\ originalImage' = (handler[p] # "handleTextToImage")
          /\ storeAction' = [storeAction EXCEPT ![p] = ActionCalled(handler[p])]
          /\ isProcessing' = TRUE
          /\ currentTask' = IF ActionCalled(handler[p]) \in AsyncActions
                              THEN NoTask ELSE currentTask
          /\ submitReqs' = [submitReqs EXCEPT ![p] = @ + 1]
          /\ jobs' = jobs + 1
          /\ jobOf' = [jobOf EXCEPT ![p] = jobs + 1]
          /\ pc' = [pc EXCEPT ![p] = "submit"]
          /\ UNCHANGED <<resultImage, alerts, storeResult>>
  /\ UNCHANGED <<selectedProcessing, selectedFile, prompt, sourceFile, targetFile,
                 authModalVisible, authVars, processingHistory, handler,
                 taskId, polls, completedJobs, checkReqs, progressReqs, lastPoll,
                 failedSeen, terminalSeen, completedSeen, shown, writeReqs,
                 pollResult, dlVars, srvVars, modalVars, uploadVars>>


(* --------------------------- ghibli store ------------------------------ *)
\* answers to the job-submission POST of store action a for job j: an
\* AsyncTaskResponse or a ProcessingResult, or an error
SubmitResponses(j, a) ==
  { [ok |-> TRUE, success |-> b, message |-> m, url |-> u, err |-> NoErr] :
       b \in BOOLEAN, m \in Messages,
       u \in IF a \in AsyncActions THEN {NoUrl} ELSE ResultUrls(j) \cup {NoUrl} }
  \cup { [ok |-> FALSE, success |-> FALSE, message |-> "", url |-> NoUrl, err |-> e] :
       e \in AxiosErrors }

\* the message thrown when the submission is answered without success
startFailedMsg(a) ==
  CASE a = "convertToGhibliStyleWithProgress" -> MsgStartGhibliFailed
    [] a \in AsyncActions -> MsgStartFailed
    [] a = "faceSwap" -> MsgFaceSwapFailed
    [] OTHER -> MsgProcessFailed

\* the entry a store action pushes onto processingHistory
historyEntry(a, u, task) ==
  [result |-> u, processingType |-> a,
   processingTime |-> IF a \in AsyncActions THEN task.progress ELSE 1]

\* the end of a store action and of the handler awaiting it: res0 is what
\* the action's try block returned or threw, task the value of currentTask
\* at that point
Settle(p, res0, task) ==
  LET a == storeAction[p]
      res == IF res0.t = "throw"
               THEN Thrown(storeCatch(res0.err, unknownErrorMsg(a)))
               ELSE res0
  IN /\ processingHistory' =
          IF res.t = "return"
            THEN Append(processingHistory, historyEntry(a, res.url, task))
            ELSE processingHistory
     /\ isProcessing' = FALSE
     /\ currentTask' = IF a \in AsyncActions THEN NoTask ELSE task
     /\ HomeSettle(p, res)

\* the submission settles.  A synchronous action ends here; a WithProgress
\* action records the task and pollTaskProgress sends its first request.
SubmitResponse(p, r) ==
  /\ pc[p] = "submit"
  /\ completedJobs' =
       IF storeAction[p] \in SyncActions /\ r.ok /\ r.success /\ r.url # NoUrl
         THEN completedJobs \cup {jobOf[p]} ELSE completedJobs
  /\ writeReqs' = [writeReqs EXCEPT ![p] =
       IF r.ok /\ r.success /\ storeAction[p] \in AsyncActions /\ ~loopContinues(0)
         THEN @ \cup pollWrites(Thrown(PlainError(MsgPollTimeout))) ELSE @]
  /\ LET a == storeAction[p] IN
     IF ~r.ok
       THEN /\ Settle(p, Thrown(r.err), currentTask)
            /\ UNCHANGED <<taskId, polls, progressReqs, pollResult>>
     ELSE IF a \in SyncActions
       THEN /\ IF syncSucceeded(r)
                 THEN Settle(p, Returned(withApiBase(r.url)), currentTask)
                 ELSE Settle(p, Thrown(PlainError(OrElse(r.message, startFailedMsg(a)))),
                             currentTask)
            /\ UNCHANGED <<taskId, polls, progressReqs, pollResult>>
     ELSE IF ~r.success
       THEN /\ Settle(p, Thrown(PlainError(OrElse(r.message, startFailedMsg(a)))),
                      currentTask)
            /\ UNCHANGED <<taskId, polls, progressReqs, pollResult>>
     ELSE /\ taskId' = [taskId EXCEPT ![p] = jobOf[p]]
          /\ polls' = [polls EXCEPT ![p] = 0]
          /\ IF loopContinues(0)
               THEN /\ currentTask' = [taskId |-> jobOf[p], progress |-> 0,
                                       status |-> "pending", message |-> "task created"]
                    /\ progressReqs' = [progressReqs EXCEPT ![p] = @ + 1]
                    /\ pc' = [pc EXCEPT ![p] = "poll"]
                    /\ UNCHANGED <<processing, resultImage, isProcessing,
                                   processingHistory, pollResult,
                                   storeResult, alerts>>
               ELSE /\ pollResult' = [pollResult EXCEPT ![p] =
                                        Thrown(PlainError(MsgPollTimeout))]
                    /\ Settle(p, Thrown(PlainError(MsgPollTimeout)), NoTask)
                    /\ UNCHANGED progressReqs
  /\ UNCHANGED <<originalImage, selectedProcessing, selectedFile, prompt,
                 sourceFile, targetFile, authModalVisible, authVars,
                 handler, storeAction, jobs, jobOf, checkReqs, checkAnswer,
                 submitReqs, lastPoll, failedSeen, terminalSeen, completedSeen,
                 shown, dlVars, srvVars, modalVars, uploadVars>>

\* what a settled progress request showed, for the record of the run
pollClass(r) ==
  IF ~r.ok THEN (IF r.err.status = 404 THEN "http404" ELSE "transient")
  ELSE IF ~r.data.success THEN "unsuccessful"
  ELSE IF r.data.status = "completed" /\ r.data.result_url = NoUrl THEN "completed_nourl"
  ELSE r.data.status

\* taskAfterPoll without the test of the answer's success flag
taskAfterPollOnAnyBody(task, t, r) ==
  IF r.ok /\ task # NoTask /\ task.taskId = t
    THEN [task EXCEPT !.progress = r.data.progress,
                      !.status = r.data.status,
                      !.message = r.data.message]
    ELSE task

\* currentTask after the answer r to a poll of task t
taskAfterPoll(task, t, r) ==
  IF r.ok /\ r.data.success /\ task # NoTask /\ task.taskId = t
    THEN [task EXCEPT !.progress = r.data.progress,
                      !.status = r.data.status,
                      !.message = r.data.message]
    ELSE task

\* a progress request settles: pollTaskProgress returns, throws, or goes to
\* sleep for a second
ProgressResponse(p, r) ==
  /\ pc[p] = "poll"
  /\ lastPoll' = [lastPoll EXCEPT ![p] = pollClass(r)]
  /\ failedSeen' = [failedSeen EXCEPT ![p] =
       IF r.ok /\ r.data.success /\ r.data.status = "failed" /\ @ = "none"
         THEN OrElse(r.data.error, MsgJobFailedDefault) ELSE @]
  /\ terminalSeen' = [terminalSeen EXCEPT ![p] =
       @ \/ (r.ok /\ r.data.success /\ r.data.status \in {"completed", "failed"})]
  /\ completedJobs' =
       IF r.ok /\ r.data.success /\ r.data.status = "completed"
         THEN completedJobs \cup {taskId[p]} ELSE completedJobs
  /\ completedSeen' = [completedSeen EXCEPT ![p] =
       IF r.ok /\ r.data.success /\ r.data.status = "completed"
          /\ r.data.result_url # NoUrl /\ @ = NoUrl
         THEN r.data.result_url ELSE @]
  /\ shown' = [shown EXCEPT ![p] =
       IF r.ok /\ r.data.success
         THEN [status |-> r.data.status, result_url |-> r.data.result_url,
               error |-> r.data.error]
         ELSE @]
  /\ writeReqs' = [writeReqs EXCEPT ![p] = @ \cup pollWrites(pollIteration(r))]
  /\ LET it == pollIteration(r)
         task == taskAfterPoll(currentTask, taskId[p], r)
     IN IF it.t = "fallthrough"
          THEN /\ currentTask' = task
               /\ pc' = [pc EXCEPT ![p] = "sleep"]
               /\ UNCHANGED <<processing, resultImage, isProcessing,
                              processingHistory, pollResult,
                              storeResult, alerts>>
          ELSE /\ pollResult' = [pollResult EXCEPT ![p] = it]
               /\ Settle(p, it, task)
  /\ UNCHANGED <<originalImage, selectedProcessing, selectedFile, prompt,
                 sourceFile, targetFile, authModalVisible, authVars,
                 handler, storeAction, taskId, polls, jobs, jobOf, checkReqs,
                 checkAnswer, submitReqs, progressReqs, dlVars, srvVars, modalVars, uploadVars>>

\* a retry after a failed attempt that leaves the count as it is
pollsAfterFreeRetry(n, last) ==
  IF last \in {"transient", "unsuccessful"} THEN n ELSE n + 1

\* polls++ at the end of an iteration, whatever the attempt (last) was
pollsAfter(n, last) == n + 1

\* the one-second timer fires: polls++ and the loop condition is tested
PollTimer(p) ==
  /\ pc[p] = "sleep"
  /\ polls' = [polls EXCEPT ![p] = pollsAfter(@, lastPoll[p])]
  /\ writeReqs' = [writeReqs EXCEPT ![p] =
       IF loopContinues(pollsAfter(polls[p], lastPoll[p]))
         THEN @ ELSE @ \cup pollWrites(Thrown(PlainError(MsgPollTimeout)))]
  /\ IF loopContinues(pollsAfter(polls[p], lastPoll[p]))
       THEN /\ progressReqs' = [progressReqs EXCEPT ![p] = @ + 1]
            /\ pc' = [pc EXCEPT ![p] = "poll"]
            /\ UNCHANGED <<processing, resultImage, storeVars, completedJobs,
                           outVars>>
       ELSE /\ pollResult' = [pollResult EXCEPT ![p] =
                                Thrown(PlainError(MsgPollTimeout))]
            /\ Settle(p, Thrown(PlainError(MsgPollTimeout)), currentTask)
            /\ UNCHANGED <<progressReqs, completedJobs>>
  /\ UNCHANGED <<originalImage, selectedProcessing, selectedFile, prompt,
                 sourceFile, targetFile, authModalVisible, authVars,
                 handler, storeAction, taskId, jobs, jobOf, checkReqs,
                 checkAnswer, submitReqs, lastPoll, failedSeen, terminalSeen,
                 completedSeen, shown, dlVars, srvVars, modalVars, uploadVars>>


(* ------------------- ImageComparison.vue and the ledger ---------------- *)
MsgLoginToDownload == "please log in before downloading"
MsgNoFileName == "cannot get the file name"
MsgDownloaded == "download succeeded, 10 credits deducted"
MsgDownloadRefused == "download refused"
MsgUserInfoFailed == "Request failed"

\* the download button is rendered: the comparison panel is shown (not the
\* text-to-image result panel) with a result and not loading
DownloadVisible ==
  /\ resultImage # NoUrl
  /\ selectedProcessing # "text_to_image"
  /\ ~processing

\* downloadImage up to its request GET /api/files/<name>?download=true
downloadImage ==
  /\ DownloadVisible
  /\ Len(downloadReqs) < MaxDownloads
  /\ IF resultImage = NoUrl
       THEN UNCHANGED <<downloadReqs, dlAlert>>
     ELSE IF ~isAuthenticated
       THEN /\ dlAlert' = MsgLoginToDownload
            /\ UNCHANGED downloadReqs
     ELSE IF fileNameOf(resultImage) = 0
       THEN /\ dlAlert' = MsgNoFileName
            /\ UNCHANGED downloadReqs
     ELSE /\ downloadReqs' = Append(downloadReqs, fileNameOf(resultImage))
          /\ UNCHANGED dlAlert
  /\ UNCHANGED <<homeVars, authVars, storeVars, procVars, jobVars, netVars, outVars,
                 served, mePending, balance, debitedJobs, charged, srvVars, modalVars, uploadVars>>

\* a debit that is not keyed by the job: every download is charged
debitEveryDownload(bal, done, job) ==
  IF bal >= DownloadCost
    THEN [ok |-> TRUE, balance |-> bal - DownloadCost, debited |-> done \cup {job}]
  ELSE [ok |-> FALSE, balance |-> bal, debited |-> done]

\* the ledger's debit for a job, keyed by the job: a job already debited is
\* not debited again, and a balance below the cost refuses the debit
debit(bal, done, job) ==
  IF job \in done THEN [ok |-> TRUE, balance |-> bal, debited |-> done]
  ELSE IF bal >= DownloadCost
    THEN [ok |-> TRUE, balance |-> bal - DownloadCost, debited |-> done \cup {job}]
  ELSE [ok |-> FALSE, balance |-> bal, debited |-> done]

\* the backend serves the oldest unanswered download request and the
\* client continues: on success it saves the blob and asks for the user
\* info, on refusal it alerts
DownloadResponse ==
  /\ served < Len(downloadReqs)
  /\ LET d == debit(balance, debitedJobs, downloadReqs[served + 1])
     IN /\ charged' = IF d.balance # balance
                        THEN [charged EXCEPT ![downloadReqs[served + 1]] = @ + 1]
                        ELSE charged
        /\ balance' = d.balance
        /\ debitedJobs' = d.debited
        /\ IF d.ok
             THEN /\ mePending' = mePending + 1
                  /\ UNCHANGED dlAlert
             ELSE /\ dlAlert' = MsgDownloadRefused
                  /\ UNCHANGED mePending
  /\ served' = served + 1
  /\ UNCHANGED <<homeVars, authVars, storeVars, procVars, jobVars, netVars, outVars,
                 downloadReqs, srvVars, modalVars, uploadVars>>

\* fetchUserInfo, called by downloadImage, settles: the user is refreshed,
\* or the store logs out and downloadImage alerts the error
fetchUserInfoResponse(ok) ==
  /\ mePending > 0
  /\ mePending' = mePending - 1
  /\ IF ok
       THEN /\ user' = [credits |-> balance]
            /\ dlAlert' = MsgDownloaded
            /\ UNCHANGED <<isAuthenticated, token, stored, header>>
       ELSE /\ Session(cleared)
            /\ dlAlert' = MsgUserInfoFailed
  /\ UNCHANGED <<initMe, homeVars, storeVars, procVars, jobVars, netVars, outVars,
                 downloadReqs, served, balance, debitedJobs, charged, srvVars, modalVars, uploadVars>>

(* ------------------------------ AuthModal ------------------------------- *)
\* the length of the cooldown started by a successful send (60 in the code)
CooldownSeconds == 3
\* clicks on the send-code button and on the submit button in one run
MaxSends == 2
MaxSubmits == 2

Emails == {"a@x.io", "b@x.io"}
Codes == {"111111", "222222"}

\* no code was sent yet
NoSend == -1

\* one more second since the last code was sent
later(e) == IF e = NoSend \/ e >= CooldownSeconds THEN e ELSE e + 1

\* the header's login and register buttons, shown to a logged-out user
ShowAuthModal(mode) ==
  /\ ~isAuthenticated
  /\ ~authModalVisible
  /\ showAuthModal(mode)
  /\ UNCHANGED <<processing, originalImage, resultImage, selectedProcessing,
                 selectedFile, prompt, sourceFile, targetFile, authVars, storeVars,
                 procVars, jobVars, netVars, outVars, dlVars, srvVars, uploadVars>>

\* what no step of the modal touches
pageVars == <<processing, originalImage, resultImage, selectedProcessing,
              selectedFile, prompt, sourceFile, targetFile, storeVars, procVars,
              jobVars, netVars, outVars, dlVars, srvVars, uploadVars>>

\* the close button and the overlay
closeModal ==
  /\ authModalVisible
  /\ authModalVisible' = FALSE
  /\ resetForm
  /\ UNCHANGED <<isLogin, authMode, loading, sendingCode, timers, submitPc, argEmail,
                 argCode, sends, submits, elapsed, verifiedPairs, registerResult,
                 loginDone, stepFailed, authVars, pageVars>>

\* the link under the form
switchMode ==
  /\ authModalVisible
  /\ isLogin' = ~isLogin
  /\ resetForm
  /\ UNCHANGED <<authModalVisible, authMode, loading, sendingCode, timers, submitPc,
                 argEmail, argCode, sends, submits, elapsed, verifiedPairs,
                 registerResult, loginDone, stepFailed, authVars, pageVars>>

\* typing into the email field, which is disabled in login mode and once
\* the email is verified
EditEmail(e) ==
  /\ authModalVisible
  /\ ~(isLogin \/ emailVerified)
  /\ formEmail # e
  /\ formEmail' = e
  /\ UNCHANGED <<authModalVisible, authMode, isLogin, emailVerified, codeStatus,
                 formCode, countdown, loading, sendingCode, timers, submitPc,
                 argEmail, argCode, sends, submits, elapsed, verifiedPairs,
                 registerResult, loginDone, stepFailed, authVars, pageVars>>

\* typing into the code field, which is rendered in register mode and
\* disabled while the email field is empty
EditCode(c) ==
  /\ authModalVisible
  /\ ~isLogin
  /\ formEmail # Empty
  /\ formCode # c
  /\ formCode' = c
  /\ UNCHANGED <<authModalVisible, authMode, isLogin, emailVerified, codeStatus,
                 formEmail, countdown, loading, sendingCode, timers, submitPc,
                 argEmail, argCode, sends, submits, elapsed, verifiedPairs,
                 registerResult, loginDone, stepFailed, authVars, pageVars>>

\* the send-code button is rendered and not disabled
SendEnabled ==
  /\ authModalVisible
  /\ ~isLogin
  /\ ~(formEmail = Empty \/ sendingCode \/ countdown > 0)

\* sendVerificationCode up to its await
sendVerificationCode ==
  /\ SendEnabled
  /\ sends < MaxSends
  /\ sends' = sends + 1
  /\ sendingCode' = TRUE
  /\ codeStatus' = "none"
  /\ UNCHANGED <<authModalVisible, authMode, isLogin, emailVerified, formEmail,
                 formCode, countdown, loading, timers, submitPc, argEmail, argCode,
                 submits, elapsed, verifiedPairs, registerResult, loginDone,
                 stepFailed, authVars, pageVars>>

\* answers to POST send-verification-code: cooldown is the cooldown_seconds
\* of an unsuccessful body, 0 when it has none
SendCodeResponses ==
  { [ok |-> TRUE, success |-> TRUE, cooldown |-> 0] }
  \cup { [ok |-> TRUE, success |-> FALSE, cooldown |-> c] : c \in {0, 1} }
  \cup { [ok |-> FALSE, success |-> FALSE, cooldown |-> 0] }

\* the seconds startCountdown is called with, 0 when it is not called
countdownStarted(r) ==
  IF ~r.ok THEN 0 ELSE IF r.success THEN CooldownSeconds ELSE r.cooldown

\* the send settles: the status line, startCountdown and the finally
SendCodeResponse(r) ==
  /\ sendingCode
  /\ sendingCode' = FALSE
  /\ codeStatus' = IF r.ok /\ r.success THEN "success" ELSE "error"
  /\ IF countdownStarted(r) > 0
       THEN countdown' = countdownStarted(r) /\ timers' = timers + 1
       ELSE UNCHANGED <<countdown, timers>>
  /\ elapsed' = IF r.ok /\ r.success THEN 0 ELSE elapsed
  /\ UNCHANGED <<authModalVisible, authMode, isLogin, emailVerified, formEmail,
                 formCode, loading, submitPc, argEmail, argCode, sends, submits,
                 verifiedPairs, registerResult, loginDone, stepFailed, authVars,
                 pageVars>>

\* the countdown after n running timers have fired once each
RECURSIVE countdownAfter(_, _)
countdownAfter(c, n) == IF n = 0 THEN c ELSE countdownAfter(c - 1, n - 1)

\* the timers among n that go on running: each one clears itself when it
\* leaves the countdown at 0 or below
RECURSIVE timersAfter(_, _)
timersAfter(c, n) ==
  IF n = 0 THEN 0
  ELSE (IF c - 1 <= 0 THEN 0 ELSE 1) + timersAfter(c - 1, n - 1)

\* one second passes: every running timer of startCountdown fires
Tick ==
  /\ timers > 0
  /\ countdown' = countdownAfter(countdown, timers)
  /\ timers' = timersAfter(countdown, timers)
  /\ elapsed' = later(elapsed)
  /\ UNCHANGED <<authModalVisible, authMode, isLogin, emailVerified, codeStatus,
                 formEmail, formCode, loading, sendingCode, submitPc, argEmail,
                 argCode, sends, submits, verifiedPairs, registerResult, loginDone,
                 stepFailed, authVars, pageVars>>

\* the submit button is not disabled and the browser's validation of the
\* required fields that are not disabled passes
SubmitEnabled ==
  /\ authModalVisible
  /\ ~loading
  /\ isLogin \/ ( /\ emailVerified \/ formEmail # Empty
                  /\ formEmail = Empty \/ formCode # Empty )

\* handleSubmit up to its first await: login, verifyCode or register
handleSubmit ==
  /\ SubmitEnabled
  /\ submits < MaxSubmits
  /\ submits' = submits + 1
  /\ loading' = TRUE
  /\ registerResult' = "none"
  /\ loginDone' = FALSE
  /\ stepFailed' = FALSE
  /\ submitPc' = IF isLogin THEN "login"
                 ELSE IF ~emailVerified THEN "verify" ELSE "register"
  /\ argEmail' = IF isLogin THEN Empty ELSE formEmail
  /\ argCode' = IF isLogin THEN Empty ELSE formCode
  /\ UNCHANGED <<authModalVisible, authMode, formVars, sendingCode, timers, sends,
                 elapsed, verifiedPairs, authVars, pageVars>>

\* answers to POST verify-code
VerifyResponses ==
  { [ok |-> TRUE, success |-> b] : b \in BOOLEAN }
  \cup { [ok |-> FALSE, success |-> FALSE] }

\* verifyCode settles; when it returned true, handleSubmit calls register
\* with the fields of the form
VerifyResponse(r) ==
  /\ submitPc = "verify"
  /\ IF r.ok /\ r.success
       THEN /\ emailVerified' = TRUE
            /\ codeStatus' = "success"
            /\ verifiedPairs' = verifiedPairs \cup {<<argEmail, argCode>>}
            /\ argEmail' = formEmail
            /\ argCode' = formCode
            /\ submitPc' = "register"
            /\ UNCHANGED loading
       ELSE /\ codeStatus' = IF r.ok THEN codeStatus ELSE "error"
            /\ loading' = FALSE
            /\ submitPc' = "idle"
            /\ UNCHANGED <<emailVerified, verifiedPairs, argEmail, argCode>>
  /\ UNCHANGED <<authModalVisible, authMode, isLogin, formEmail, formCode, countdown,
                 sendingCode, timers, sends, submits, elapsed, registerResult,
                 loginDone, stepFailed, authVars, pageVars>>

\* a failed /me answer that leaves the call going
authCallIgnoresFailedMe(step, ok) ==
  IF ~ok /\ step \notin {"autoMe", "me"} THEN "rejected"
  ELSE CASE step = "register" -> "autoLogin"
         [] step = "autoLogin" -> "autoMe"
         [] step = "login" -> "me"
         [] OTHER -> "resolved"

\* where register (register, autoLogin, autoMe) or login (login, me) goes
\* once the request of its step has settled
authCall(step, ok) ==
  IF ~ok THEN "rejected"
  ELSE CASE step = "register" -> "autoLogin"
         [] step = "autoLogin" -> "autoMe"
         [] step = "login" -> "me"
         [] OTHER -> "resolved"

RegisterSteps == {"register", "autoLogin", "autoMe"}

\* the request of a step of register or login settles.  The login answer
\* is followed by setToken, a failed /me by clearToken; the end of the call
\* is followed by the rest of handleSubmit: emit, closeModal, finally.
AuthResponse(ok) ==
  /\ submitPc \in RegisterSteps \cup {"login", "me"}
  /\ LET to == authCall(submitPc, ok)
         me == submitPc \in {"autoMe", "me"}
         reg == submitPc \in RegisterSteps
     IN /\ stepFailed' = (stepFailed \/ ~ok)
        /\ loginDone' = (loginDone \/ (submitPc \in {"autoLogin", "login"} /\ ok))
        /\ registerResult' = IF reg /\ to \in {"resolved", "rejected"}
                               THEN to ELSE registerResult
        /\ submitPc' = IF to \in {"resolved", "rejected"} THEN "idle" ELSE to
        /\ loading' = (to \notin {"resolved", "rejected"})
        /\ IF submitPc \in {"autoLogin", "login"} /\ ok
             THEN Session(tokenSet(Token))
           ELSE IF me /\ ok
             THEN /\ user' = [credits |-> balance]
                  /\ UNCHANGED <<isAuthenticated, token, stored, header>>
           ELSE IF me
             THEN Session(cleared)
           ELSE UNCHANGED <<isAuthenticated, token, stored, header, user>>
        /\ UNCHANGED initMe
        /\ IF to = "resolved"
             THEN authModalVisible' = FALSE /\ resetForm
             ELSE UNCHANGED <<authModalVisible, emailVerified, codeStatus, formEmail,
                              formCode, countdown>>
  /\ UNCHANGED <<authMode, isLogin, sendingCode, timers, argEmail, argCode, sends,
                 submits, elapsed, verifiedPairs, pageVars>>

\* the /me request sent when the store is created with a token settles:
\* fetchUserInfo, and the clearToken of its catch and of the caller's
InitMeResponse(ok) ==
  /\ initMe
  /\ initMe' = FALSE
  /\ IF ok
       THEN /\ user' = [credits |-> balance]
            /\ UNCHANGED <<isAuthenticated, token, stored, header>>
       ELSE Session(cleared)
  /\ UNCHANGED <<authModalVisible, modalVars, pageVars>>

(* ------------------------ the Progress Tracker -------------------------- *)
\* the record of a job that was never created
NoJob == [status |-> "none", progress |-> 0, result_url |-> NoUrl, error |-> ""]
\* the record of a job at its creation
NewJob == [status |-> "pending", progress |-> 0, result_url |-> NoUrl, error |-> ""]
\* the record of a job after its retention window
ExpiredJob == [status |-> "expired", progress |-> 0, result_url |-> NoUrl, error |-> ""]

Terminal == {"completed", "failed"}

\* the status state machine: pending -> running -> completed or failed
Transitions ==
  { <<"pending", "pending">>, <<"pending", "running">>, <<"running", "running">>,
    <<"running", "completed">>, <<"running", "failed">> }

\* update accepting what it is given, whatever the record holds
updateOverwrites(rec, st, pr, u, e) ==
  IF rec.status \in {"none", "expired"} THEN rec
  ELSE [status |-> st, progress |-> pr, result_url |-> u, error |-> e]

\* the tracker's update of a record: an update of a terminal record is
\* rejected, the status follows the state machine, the progress does not
\* decrease, completed comes with a result and failed with an error
update(rec, st, pr, u, e) ==
  IF /\ <<rec.status, st>> \in Transitions
     /\ pr >= rec.progress
     /\ (u # NoUrl) = (st = "completed")
     /\ (e # "") = (st = "failed")
    THEN [status |-> st, progress |-> pr, result_url |-> u, error |-> e]
    ELSE rec

\* the answers to GET /api/progress/<j>: the snapshot of the record, or 404
\* for a job that is unknown or expired; besides, the request may fail on
\* the network and the endpoint may answer without success
TrackerResponses(j) ==
  IF j \notin 1..MaxJobs THEN {}
  ELSE { r \in ProgressResponses(j) :
           \/ ~r.ok /\ r.err.code = "ERR_NETWORK"
           \/ r.ok /\ ~r.data.success /\ r.data.status = "pending" /\ r.data.message = ""
           \/ /\ tracker[j].status \in {"none", "expired"}
              /\ ~r.ok /\ r.err.status = 404
           \/ /\ tracker[j].status \notin {"none", "expired"}
              /\ r.ok /\ r.data.success
              /\ r.data.status = tracker[j].status
              /\ r.data.progress = tracker[j].progress
              /\ r.data.result_url = tracker[j].result_url
              /\ r.data.error = tracker[j].error }

clientVars == <<homeVars, authVars, storeVars, procVars, jobVars, netVars, outVars,
                dlVars, modalVars, uploadVars>>

\* the Job Submitter creates the record of the job an asynchronous
\* submission asks for
BackendCreate(p) ==
  /\ pc[p] = "submit"
  /\ storeAction[p] \in AsyncActions
  /\ tracker[jobOf[p]] = NoJob
  /\ tracker' = [tracker EXCEPT ![jobOf[p]] = NewJob]
  /\ UNCHANGED clientVars

\* the processing backend reports on job j
BackendUpdate(j, st, pr, u, e) ==
  /\ tracker[j].status \notin {"none", "expired"}
  /\ tracker' = [tracker EXCEPT ![j] = update(@, st, pr, u, e)]
  /\ UNCHANGED clientVars

\* the record of job j expires
BackendExpire(j) ==
  /\ tracker[j].status \notin {"none", "expired"}
  /\ tracker' = [tracker EXCEPT ![j] = ExpiredJob]
  /\ UNCHANGED clientVars

(* --------------------------- specifications ---------------------------- *)
\* no invocation is suspended at an await
Quiescent == \A q \in Invocations : pc[q] \in {"idle", "done"}

\* the state of the page before any click, with the inputs of the page
\* given; me says whether the /me request of the store's creation is still
\* unanswered
InitWith(auth, kinds, file, text, faces, credits, me) ==
  /\ processing = FALSE
  /\ originalImage = FALSE
  /\ resultImage = NoUrl
  /\ selectedProcessing \in kinds
  /\ selectedFile = file
  /\ prompt = text
  /\ sourceFile = faces
  /\ targetFile = faces
  /\ authModalVisible = FALSE
  /\ isAuthenticated \in auth
  /\ user = NoUser
  /\ token = IF isAuthenticated THEN Token ELSE NoToken
  /\ stored = token
  /\ header = token
  /\ initMe = (me /\ isAuthenticated)
  /\ uploadSelectedFile = NoFile
  /\ uploads = 0
  /\ offered = NoFile
  /\ picks = 0
  /\ uploadAlert = ""
  /\ isProcessing = FALSE
  /\ currentTask = NoTask
  /\ processingHistory = <<>>
  /\ pc = [p \in Invocations |-> "idle"]
  /\ handler = [p \in Invocations |-> "none"]
  /\ storeAction = [p \in Invocations |-> "none"]
  /\ taskId = [p \in Invocations |-> 0]
  /\ polls = [p \in Invocations |-> 0]
  /\ jobs = 0
  /\ jobOf = [p \in Invocations |-> 0]
  /\ completedJobs = {}
  /\ checkReqs = [p \in Invocations |-> 0]
  /\ checkAnswer = [p \in Invocations |-> "none"]
  /\ submitReqs = [p \in Invocations |-> 0]
  /\ progressReqs = [p \in Invocations |-> 0]
  /\ lastPoll = [p \in Invocations |-> "none"]
  /\ failedSeen = [p \in Invocations |-> "none"]
  /\ terminalSeen = [p \in Invocations |-> FALSE]
  /\ completedSeen = [p \in Invocations |-> NoUrl]
  /\ shown = [p \in Invocations |-> NoSnapshot]
  /\ writeReqs = [p \in Invocations |-> {}]
  /\ pollResult = [p \in Invocations |-> NoResult]
  /\ storeResult = [p \in Invocations |-> NoResult]
  /\ alerts = [p \in Invocations |-> ""]
  /\ downloadReqs = <<>>
  /\ served = 0
  /\ mePending = 0
  /\ dlAlert = ""
  /\ balance \in credits
  /\ debitedJobs = {}
  /\ charged = [j \in 1..MaxJobs |-> 0]
  /\ tracker = [j \in 1..MaxJobs |-> NoJob]
  /\ authMode = "login"
  /\ isLogin = TRUE
  /\ loading = FALSE
  /\ sendingCode = FALSE
  /\ countdown = 0
  /\ emailVerified = FALSE
  /\ codeStatus = "none"
  /\ formEmail = Empty
  /\ formCode = Empty
  /\ timers = 0
  /\ submitPc = "idle"
  /\ argEmail = Empty
  /\ argCode = Empty
  /\ sends = 0
  /\ submits = 0
  /\ elapsed = NoSend
  /\ verifiedPairs = {}
  /\ registerResult = "none"
  /\ loginDone = FALSE
  /\ stepFailed = FALSE

\* the answers to a progress request that decide how a job ends: not
\* found, still running, completed with a result, failed with an error text
CoreProgressResponses(task) ==
  { r \in ProgressResponses(task) :
      \/ ~r.ok /\ r.err.status = 404
      \/ /\ r.ok /\ r.data.success /\ r.data.progress = 100
         /\ \/ r.data.status = "running"
            \/ r.data.status = "completed" /\ r.data.result_url = Url("", task)
            \/ r.data.status = "failed" /\ r.data.error # "" }

\* the answers to a progress request by what the poll loop does with them:
\* those that decide how a job ends, and one each of a network failure, an
\* unsuccessful body and a completion without a result
LoopProgressResponses(task) ==
  CoreProgressResponses(task) \cup
  { r \in ProgressResponses(task) :
      \/ ~r.ok /\ r.err.code = "ERR_NETWORK"
      \/ r.ok /\ ~r.data.success /\ r.data.status = "running" /\ r.data.message = ""
      \/ /\ r.ok /\ r.data.success /\ r.data.progress = 100
         /\ r.data.status = "completed" /\ r.data.result_url = NoUrl }

\* the answers to a credit check that decide the control flow of the
\* handlers, one of each sort
CoreCheckResponses ==
  { r \in CheckResponses : r.ok \/ r.err.code = "ERR_NETWORK" }

\* the answers to a job submission that decide the control flow of the
\* store actions, one of each sort
CoreSubmitResponses(j, a) ==
  { r \in SubmitResponses(j, a) :
      \/ ~r.ok /\ r.err.code = "ERR_BAD_RESPONSE"
      \/ r.ok /\ r.message = "" /\ r.url \in {NoUrl, Url("", j)} }

\* the processing types by the way their job is submitted: a WithProgress
\* action on a file, processImage, the text prompt, the face swap
SubmitKinds == {"ghibli_style", "grayscale", "text_to_image", "face_swap"}

\* Credit check and submission: the user, with a prompt typed and the
\* face-swap images chosen, picks a file and a processing type, logs in and
\* out and clicks the processing buttons, one job after the other.
Init == InitWith(BOOLEAN, {"ghibli_style"}, FALSE, "a cat", TRUE,
                 {MaxDownloads * DownloadCost}, FALSE)

Next ==
  \/ handleFileSelect
  \/ \E k \in SubmitKinds : SelectProcessing(k)
  \/ setToken
  \/ clearToken
  \/ \E p \in Invocations, h \in Handlers : Quiescent /\ Click(p, h)
  \/ \E p \in Invocations, r \in CoreCheckResponses : CheckCreditsResponse(p, r)
  \/ \E p \in Invocations : \E r \in CoreSubmitResponses(jobOf[p], storeAction[p]) : SubmitResponse(p, r)
  \/ \E p \in Invocations : \E r \in CoreProgressResponses(taskId[p]) : ProgressResponse(p, r)
  \/ \E p \in Invocations : PollTimer(p)

Spec == Init /\ [][Next]_vars

\* Download: a logged-in user with a file chosen runs image jobs one after
\* the other, may choose another file and clicks the download button; the
\* ledger, whose balance pays for one download or for all of them, debits
\* each download.  A failed refresh of the user info logs the
\* user out, who may log in again.
InitDownload ==
  InitWith({TRUE}, {"ghibli_style", "grayscale"}, TRUE, "", FALSE,
           {DownloadCost, MaxDownloads * DownloadCost}, FALSE)

NextDownload ==
  \/ handleFileSelect
  \/ setToken
  \/ \E p \in Invocations, h \in Handlers : Quiescent /\ Click(p, h)
  \/ \E p \in Invocations, r \in CoreCheckResponses : CheckCreditsResponse(p, r)
  \/ \E p \in Invocations : \E r \in CoreSubmitResponses(jobOf[p], storeAction[p]) : SubmitResponse(p, r)
  \/ \E p \in Invocations : \E r \in CoreProgressResponses(taskId[p]) : ProgressResponse(p, r)
  \/ \E p \in Invocations : PollTimer(p)
  \/ downloadImage
  \/ DownloadResponse
  \/ \E ok \in BOOLEAN : fetchUserInfoResponse(ok)

SpecDownload == InitDownload /\ [][NextDownload]_vars

\* The poll loop: a logged-in user with a file chosen and a prompt typed
\* runs the jobs one after the other; every answer of the backend is
\* possible.
InitPoll == InitWith({TRUE}, {"ghibli_style", "creative_upscale", "text_to_image"},
                     TRUE, "a cat", FALSE,
                     {MaxDownloads * DownloadCost}, FALSE)

NextPoll ==
  \/ \E p \in Invocations, h \in Handlers : Quiescent /\ Click(p, h)
  \/ \E p \in Invocations, r \in CheckResponses : CheckCreditsResponse(p, r)
  \/ \E p \in Invocations : \E r \in SubmitResponses(jobOf[p], storeAction[p]) : SubmitResponse(p, r)
  \/ \E p \in Invocations : \E r \in ProgressResponses(taskId[p]) : ProgressResponse(p, r)
  \/ \E p \in Invocations : PollTimer(p)

SpecPoll == InitPoll /\ [][NextPoll]_vars

\* The poll loop of one WithProgress action, with what the scheduling
\* guarantees: a progress request that is in flight settles and a pending
\* one-second timer fires
InitPollOne == InitWith({TRUE}, {"creative_upscale"}, TRUE, "", FALSE,
                        {MaxDownloads * DownloadCost}, FALSE)

NextPollOne ==
  \/ \E p \in Invocations, h \in Handlers : Quiescent /\ Click(p, h)
  \/ \E p \in Invocations, r \in CoreCheckResponses : CheckCreditsResponse(p, r)
  \/ \E p \in Invocations : \E r \in CoreSubmitResponses(jobOf[p], storeAction[p]) : SubmitResponse(p, r)
  \/ \E p \in Invocations : \E r \in LoopProgressResponses(taskId[p]) : ProgressResponse(p, r)
  \/ \E p \in Invocations : PollTimer(p)

FairSpecPoll ==
  /\ InitPollOne /\ [][NextPollOne]_vars
  /\ \A p \in Invocations :
       /\ WF_vars(\E r \in LoopProgressResponses(taskId[p]) : ProgressResponse(p, r))
       /\ WF_vars(PollTimer(p))

\* The tracked job: a logged-in user runs creative-upscale jobs one after
\* the other; the backend creates the record of each job, reports on it and
\* lets it expire while the client polls it, and goes on doing so after the
\* client has stopped.
\* what the processing backend reports about job j: running at either
\* progress, completed with its result, failed with an error text at either
\* progress, and back to pending
Reports(j) ==
  { [status |-> "running", progress |-> pr, result_url |-> NoUrl, error |-> ""] :
      pr \in Progresses }
  \cup { [status |-> "failed", progress |-> pr, result_url |-> NoUrl,
          error |-> "engine timeout"] : pr \in Progresses }
  \cup { [status |-> "completed", progress |-> 100, result_url |-> Url("", j),
          error |-> ""],
         [status |-> "pending", progress |-> 0, result_url |-> NoUrl, error |-> ""] }

InitTracker == InitWith({TRUE}, {"creative_upscale"}, TRUE, "", FALSE,
                        {MaxDownloads * DownloadCost}, FALSE)

NextTracker ==
  \/ \E p \in Invocations, h \in Handlers : Quiescent /\ Click(p, h)
  \/ \E p \in Invocations, r \in CoreCheckResponses : CheckCreditsResponse(p, r)
  \/ \E p \in Invocations : BackendCreate(p)
  \/ \E p \in Invocations : \E r \in CoreSubmitResponses(jobOf[p], storeAction[p]) :
        /\ pc[p] = "submit"
        /\ (r.ok /\ r.success) => tracker[jobOf[p]] # NoJob
        /\ SubmitResponse(p, r)
  \/ \E j \in 1..MaxJobs : \E u \in Reports(j) :
        BackendUpdate(j, u.status, u.progress, u.result_url, u.error)
  \/ \E j \in 1..MaxJobs : BackendExpire(j)
  \/ \E p \in Invocations : \E r \in TrackerResponses(taskId[p]) : ProgressResponse(p, r)
  \/ \E p \in Invocations : PollTimer(p)

SpecTracker == InitTracker /\ [][NextTracker]_vars

\* Clicks in quick succession: a logged-in user with a file chosen clicks
\* the run button again while earlier invocations of the handler are still
\* suspended; the button is disabled only once an invocation has set
\* processing, after its credit check.
InitConcurrent == InitWith({TRUE}, {"creative_upscale"}, TRUE, "", FALSE,
                           {MaxDownloads * DownloadCost}, FALSE)

\* the invocations suspended at their credit check
Checking == {q \in Invocations : pc[q] = "check"}

NextConcurrent ==
  \/ \E p \in Invocations, h \in Handlers :
        jobs + Cardinality(Checking) < MaxJobs /\ Click(p, h)
  \/ \E p \in Invocations, r \in CoreCheckResponses : CheckCreditsResponse(p, r)
  \/ \E p \in Invocations : \E r \in CoreSubmitResponses(jobOf[p], storeAction[p]) : SubmitResponse(p, r)
  \/ \E p \in Invocations : \E r \in CoreProgressResponses(taskId[p]) : ProgressResponse(p, r)
  \/ \E p \in Invocations : PollTimer(p)

SpecConcurrent == InitConcurrent /\ [][NextConcurrent]_vars

\* the answers to a progress request that end the poll at once
EndingProgressResponses(task) ==
  { r \in CoreProgressResponses(task) : ~r.ok \/ r.data.status = "completed" }

\* The inputs of the page: a logged-in user picks a processing type, types
\* into and clears the prompt, chooses and removes the face-swap images,
\* chooses a file and clicks the buttons; the inputs stay editable while a
\* handler is suspended.
InitInput == InitWith({TRUE}, {"ghibli_style"}, FALSE, "", FALSE,
                      {MaxDownloads * DownloadCost}, FALSE)

InputKinds == {"ghibli_style", "text_to_image", "face_swap"}

NextInput ==
  \/ handleFileSelect
  \/ \E k \in InputKinds : SelectProcessing(k)
  \/ \E t \in Prompts : EditPrompt(t)
  \/ \E b \in BOOLEAN : SetSourceFile(b)
  \/ \E b \in BOOLEAN : SetTargetFile(b)
  \/ \E p \in Invocations, h \in Handlers : Quiescent /\ Click(p, h)
  \/ \E p \in Invocations, r \in CoreCheckResponses : CheckCreditsResponse(p, r)
  \/ \E p \in Invocations : \E r \in CoreSubmitResponses(jobOf[p], storeAction[p]) : SubmitResponse(p, r)
  \/ \E p \in Invocations : \E r \in EndingProgressResponses(taskId[p]) : ProgressResponse(p, r)

SpecInput == InitInput /\ [][NextInput]_vars

\* The auth modal: a logged-out user opens the modal, switches between
\* login and register, types an email and a code, submits and closes the
\* modal, at any moment and also while a request is in flight; the backend
\* answers every request either way.
InitModal == InitWith({FALSE}, {"ghibli_style"}, FALSE, "", FALSE,
                      {MaxDownloads * DownloadCost}, FALSE)

NextModal ==
  \/ \E mode \in {"login", "register"} : ShowAuthModal(mode)
  \/ closeModal
  \/ switchMode
  \/ \E e \in Emails \cup {Empty} : EditEmail(e)
  \/ \E c \in Codes \cup {Empty} : EditCode(c)
  \/ handleSubmit
  \/ \E r \in VerifyResponses : VerifyResponse(r)
  \/ \E ok \in BOOLEAN : AuthResponse(ok)

SpecModal == InitModal /\ [][NextModal]_vars

\* The send-code button: a logged-out user opens the modal, switches
\* between login and register, types an email, asks for a code and closes
\* the modal, at any moment; the backend answers either way and seconds
\* pass.
NextCooldown ==
  \/ \E mode \in {"login", "register"} : ShowAuthModal(mode)
  \/ closeModal
  \/ switchMode
  \/ \E e \in Emails \cup {Empty} : EditEmail(e)
  \/ sendVerificationCode
  \/ \E r \in SendCodeResponses : SendCodeResponse(r)
  \/ Tick

SpecCooldown == InitModal /\ [][NextCooldown]_vars

\* The auth store: the page is loaded with or without a token in
\* localStorage; the user logs in through the modal, which may be closed
\* while the login is in flight, and logs out from the header; every
\* request is answered either way, at any moment.
InitStore == InitWith(BOOLEAN, {"ghibli_style"}, FALSE, "", FALSE,
                      {MaxDownloads * DownloadCost}, TRUE)

NextStore ==
  \/ \E ok \in BOOLEAN : InitMeResponse(ok)
  \/ \E mode \in {"login", "register"} : ShowAuthModal(mode)
  \/ closeModal
  \/ handleSubmit
  \/ \E ok \in BOOLEAN : AuthResponse(ok)
  \/ ~authModalVisible /\ clearToken

SpecStore == InitStore /\ [][NextStore]_vars

\* ImageUpload on the page of a user who is not processing: files are
\* chosen in the dialog or dropped on the area, one after the other.
NextUpload ==
  \/ \E file \in Files : processFile(file)
  \/ \E file \in Files : handleDrop(file)

SpecUpload ==
  /\ InitWith({TRUE}, {"ghibli_style"}, FALSE, "", FALSE, {ImageCost}, FALSE)
  /\ [][NextUpload]_vars

(* ------------------------------- claims --------------------------------- *)
PollTimeoutError == Thrown(PlainError(MsgPollTimeout))
NotFoundError == Thrown(PlainError(MsgTaskNotFound))

\* C1: once a poll of a task has answered status failed, pollTaskProgress
\* has failed with an error carrying the backend's error text, and the
\* WithProgress action has rejected.
C1_FailedStatusFailsThePoll ==
  \A p \in Invocations :
    failedSeen[p] # "none" =>
      /\ pollResult[p] = Thrown(PlainError(failedSeen[p]))
      /\ storeResult[p].t = "throw"

\* C2: after a poll has answered a terminal status (completed or failed),
\* the same call of pollTaskProgress issues no further progress request.
C2_NoRequestAfterTerminal ==
  [][\A p \in Invocations :
       (terminalSeen[p] /\ terminalSeen'[p]) => progressReqs'[p] = progressReqs[p]]_vars

\* C3: once a poll of a task has answered completed with a result_url,
\* pollTaskProgress has returned that task's URL (absolute, the given one
\* if it was absolute), the WithProgress action has resolved with it, and
\* no error was alerted.
C3_CompletedResolvesWithResult ==
  \A p \in Invocations :
    completedSeen[p] # NoUrl =>
      /\ pc[p] = "done"
      /\ pollResult[p].t = "return"
      /\ pollResult[p].url.file = taskId[p]
      /\ pollResult[p].url.base # ""
      /\ (completedSeen[p].base # "" => pollResult[p].url = completedSeen[p])
      /\ storeResult[p] = pollResult[p]
      /\ alerts[p] = ""

\* the completion was seen at the last attempt of the budget
C3_Witness ==
  \E p \in Invocations :
    /\ completedSeen[p] = Url("", taskId[p])
    /\ polls[p] = maxPolls - 1
    /\ storeResult[p].t = "return"

\* C4: after a poll error that is not a 404 (a network failure, a request
\* timeout, another status, an unsuccessful body) the loop goes on; the
\* loop ends by a return only on status completed, and by a throw only on
\* a 404 answer or with the attempts exhausted.
C4_TransientErrorsDoNotAbort ==
  \A p \in Invocations :
    /\ lastPoll[p] \in {"transient", "unsuccessful"} =>
         \/ pollResult[p] = NoResult /\ pc[p] \in {"sleep", "poll"}
         \/ pollResult[p] = PollTimeoutError /\ polls[p] = maxPolls
    /\ pollResult[p].t = "return" => lastPoll[p] = "completed"
    /\ pollResult[p].t = "throw" =>
         \/ pollResult[p] = NotFoundError /\ lastPoll[p] = "http404"
         \/ pollResult[p] = PollTimeoutError /\ polls[p] = maxPolls

\* the next request was issued after a transient error
C4_Witness ==
  \E p \in Invocations :
    lastPoll[p] = "transient" /\ pc[p] = "poll" /\ polls[p] >= 1

\* C5: pollTaskProgress fails with the timeout error only after exactly
\* maxPolls attempts; a call that saw neither a terminal status nor a 404
\* ends only that way; and every call of pollTaskProgress ends.
C5_TimeoutAfterMaxPolls ==
  /\ [](\A p \in Invocations :
          /\ pollResult[p] = PollTimeoutError =>
               polls[p] = maxPolls /\ progressReqs[p] = maxPolls
          /\ ( /\ pc[p] = "done" /\ taskId[p] # 0
               /\ ~terminalSeen[p] /\ lastPoll[p] # "http404" ) =>
               pollResult[p] = PollTimeoutError /\ progressReqs[p] = maxPolls)
  /\ \A p \in Invocations : (pc[p] \in {"poll", "sleep"}) ~> (pc[p] = "done")

\* a call timed out without ever seeing a terminal status
C5_Witness ==
  \E p \in Invocations :
    /\ pollResult[p] = PollTimeoutError
    /\ ~terminalSeen[p]
    /\ progressReqs[p] = maxPolls

\* C6: a progress request answered 404 ends the call of pollTaskProgress
\* with the not-found error; that request was the last one of the call.
C6_NotFoundIsTerminal ==
  \A p \in Invocations :
    lastPoll[p] = "http404" =>
      /\ pc[p] = "done"
      /\ pollResult[p] = NotFoundError
      /\ progressReqs[p] = polls[p] + 1

\* the 404 came after an earlier attempt
C6_Witness ==
  \E p \in Invocations :
    lastPoll[p] = "http404" /\ polls[p] >= 1 /\ pollResult[p] = NotFoundError

\* the three errors pollTaskProgress can end with
PollErrorMessages(p) ==
  {MsgPollTimeout, MsgTaskNotFound} \cup
  (IF failedSeen[p] = "none" THEN {} ELSE {failedSeen[p]})

\* C7: what the WithProgress action surfaces after a poll error tells the
\* errors apart: the message alerted after one of them is not the message
\* alerted after another, and a job failure is alerted with the backend's
\* error text.
C7_PollOutcomesDistinct ==
  \A p \in Invocations :
    /\ pollResult[p].t = "throw" =>
         \A m \in PollErrorMessages(p) \ {pollResult[p].err.message} :
           alerts[p] # storeCatch(PlainError(m), unknownErrorMsg(storeAction[p])).message
    /\ (pc[p] = "done" /\ failedSeen[p] # "none") => alerts[p] = failedSeen[p]


\* C8: a job-submission request of an invocation was sent only after the
\* credit check for the cost of its handler (15 for the face swap, 10 for
\* the others) answered sufficient; after an answer of insufficient the
\* handler has ended with no submission and no job.
C8_SubmitOnlyAfterSufficientCheck ==
  \A p \in Invocations :
    /\ submitReqs[p] > 0 =>
         /\ checkAnswer[p] = "sufficient"
         /\ checkReqs[p] = IF handler[p] = "handleFaceSwap" THEN FaceSwapCost ELSE ImageCost
    /\ checkAnswer[p] = "insufficient" =>
         /\ pc[p] = "done"
         /\ submitReqs[p] = 0
         /\ jobOf[p] = 0
         /\ alerts[p] = MsgInsufficient

\* a face swap was refused for lack of credits after an earlier job ran
C8_Witness ==
  \E p \in Invocations :
    /\ handler[p] = "handleFaceSwap"
    /\ checkAnswer[p] = "insufficient"
    /\ pc[p] = "done"
    /\ jobs >= 1

\* C9: every download request names the file of a job whose completion
\* the client observed, and only such jobs are debited.
C9_DownloadOnlyCompletedJobs ==
  /\ \A i \in 1..Len(downloadReqs) : downloadReqs[i] \in completedJobs
  /\ debitedJobs \subseteq completedJobs

\* the result of an earlier job was downloaded and debited, and a later
\* job ended without completing
C9_Witness ==
  \E p \in Invocations :
    /\ pc[p] = "done" /\ jobOf[p] # 0 /\ jobOf[p] \notin completedJobs
    /\ storeResult[p].t = "throw"
    /\ debitedJobs # {}
    /\ \A j \in debitedJobs : j < jobOf[p]

C11_ProgressNonDecreasing ==
  [][(/\ currentTask # NoTask /\ currentTask' # NoTask
      /\ currentTask'.taskId = currentTask.taskId
      /\ currentTask.status \notin Terminal)
       => currentTask'.progress >= currentTask.progress]_vars

\* a poll showed the task running at full progress after an answer
\* without success
C11_Witness ==
  \E p \in Invocations :
    /\ currentTask # NoTask /\ currentTask.taskId = taskId[p]
    /\ currentTask.progress = 100 /\ currentTask.status = "running"
    /\ lastPoll[p] = "unsuccessful"

\* C12: once the record of a job is completed or failed no update changes
\* it (it can only expire), and once the client has been shown a terminal
\* status no later answer of the same call shows another status, result or
\* error.
C12_TerminalImmutable ==
  [][/\ \A j \in 1..MaxJobs :
          tracker[j].status \in Terminal => tracker'[j] \in {tracker[j], ExpiredJob}
     /\ \A p \in Invocations :
          (shown[p].status \in Terminal /\ shown'[p] # NoSnapshot)
            => shown'[p] = shown[p]]_vars

\* the client was shown the failure of its task at a third attempt or later
C12_Witness ==
  \E p \in Invocations :
    /\ shown[p].status = "failed" /\ lastPoll[p] = "failed"
    /\ polls[p] >= 2
    /\ tracker[taskId[p]].status = "failed"

\* C13: about its task pollTaskProgress sends only the GET of the progress,
\* also when it times out or fails, and no step of the client (a handler, a
\* store action, the poll loop) changes the record of a job.
C13_PollingHasNoSideEffect ==
  /\ [](\A p \in Invocations : writeReqs[p] = {})
  /\ [][(procVars' # procVars \/ netVars' # netVars \/ outVars' # outVars)
          => tracker' = tracker]_vars

\* the call timed out on a running job, which completed afterwards
C13_Witness ==
  \E p \in Invocations :
    /\ pollResult[p] = PollTimeoutError
    /\ shown[p].status = "running"
    /\ tracker[taskId[p]].status = "completed"

\* what the store tracks for the task of invocation p
trackedFor(p) ==
  IF currentTask # NoTask /\ currentTask.taskId = taskId[p] THEN currentTask ELSE NoTask

\* C14: while the task of an invocation is being polled, a step that is
\* not a step of that invocation (the submission, a poll answer, the
\* completion or the failure of another task) leaves what is tracked for
\* its task as it is.
C14_TasksIndependent ==
  [][\A p \in Invocations :
       (pc[p] \in {"poll", "sleep"} /\ pc'[p] = pc[p])
         => trackedFor(p)' = trackedFor(p)]_vars


\* the invocation sends its credit check, or its job submission, in this step
SendsCheck(p) == pc[p] # "check" /\ pc'[p] = "check"
SendsSubmit(p) == pc[p] # "submit" /\ pc'[p] = "submit"

\* C15: handleTextToImage sends neither a credit check nor a job submission
\* while the trimmed prompt is empty.
C15_EmptyPromptSendsNothing ==
  [][\A p \in Invocations :
       (handler'[p] = "handleTextToImage" /\ trim(prompt) = "")
         => ~SendsCheck(p) /\ ~SendsSubmit(p)]_vars

SendsRegister == submitPc # "register" /\ submitPc' = "register"

\* C17: a registration request is sent only once a verify-code request for
\* the email and the code it carries has succeeded, and a verification
\* that did not succeed is followed by no registration request.
C17_RegisterOnlyAfterVerification ==
  [][/\ SendsRegister => <<argEmail', argCode'>> \in verifiedPairs'
     /\ (submitPc = "verify" /\ verifiedPairs' = verifiedPairs) => ~SendsRegister]_vars

\* C18: once a code has been sent successfully, sendVerificationCode is not
\* triggered again before the cooldown's seconds have passed, whatever the
\* user does in the modal in between.
C18_SendCooldown ==
  [][sends' # sends => (elapsed = NoSend \/ elapsed >= CooldownSeconds)]_vars

C20_RetriesWithinBudget ==
  \A p \in Invocations :
    /\ progressReqs[p] <= maxPolls
    /\ pc[p] \in {"poll", "sleep"} => progressReqs[p] = polls[p] + 1
    /\ pollResult[p] = PollTimeoutError => progressReqs[p] = polls[p]

\* the last attempt of the budget followed failed attempts only
C20_Witness ==
  \E p \in Invocations :
    /\ pc[p] = "poll"
    /\ progressReqs[p] = maxPolls
    /\ lastPoll[p] \in {"transient", "unsuccessful"}
    /\ ~terminalSeen[p]

\* C28: at most one countdown timer of startCountdown is running at any
\* time, so that the countdown goes down by one each second (only a reset
\* to 0 takes more off it).
C28_OneCountdownTimer ==
  /\ [](timers <= 1)
  /\ [][countdown' < countdown - 1 => countdown' = 0]_vars

\* C29: the countdown of the send-code button is never negative.
C29_CountdownNotNegative == countdown >= 0

\* the invocations whose store action is in flight
InFlight == {q \in Invocations : pc[q] \in {"submit", "poll", "sleep"}}

\* C22: isProcessing is true exactly while a store action is in flight, and
\* currentTask is set only while a WithProgress action in flight tracks
\* that task.
C22_IsProcessingReflectsWork ==
  /\ isProcessing = (InFlight # {})
  /\ currentTask # NoTask =>
       \E q \in InFlight : storeAction[q] \in AsyncActions
                           /\ currentTask.taskId = taskId[q]

\* C23: at most one job submission is made at a time: an invocation started
\* while another one has not settled sends no job-submission request.
C23_OneOperationInFlight ==
  [][\A p \in Invocations :
       SendsSubmit(p) => \A q \in Invocations \ {p} : pc[q] \in {"idle", "done"}]_vars

\* C27: no handler sends a credit check or a job submission, and
\* downloadImage sends no download request, while isAuthenticated is false.
C27_NoRequestLoggedOut ==
  [][~isAuthenticated =>
       /\ \A p \in Invocations : ~SendsCheck(p) /\ ~SendsSubmit(p)
       /\ Len(downloadReqs') <= Len(downloadReqs)]_vars

\* C24: user is set only while isAuthenticated is true, whatever the order
\* of logins, logouts and answers to /me.
C24_UserOnlyWhileAuthenticated == user # NoUser => isAuthenticated

\* C25: isAuthenticated is true exactly when the token is set, and the
\* token of the store, the entry of localStorage and the Authorization
\* header are the same.
C25_TokenStorageHeaderAgree ==
  /\ isAuthenticated = (token # NoToken)
  /\ stored = token
  /\ header = token

\* a login was answered and its /me is in flight
C25_Witness ==
  /\ submitPc = "me" /\ token = Token /\ stored = Token /\ header = Token
  /\ isAuthenticated /\ submits = MaxSubmits

\* C26: a failed /me leaves the store logged out in full, and the login it
\* belongs to ends there, without the success of handleSubmit.
C26_FailedUserInfoLogsOut ==
  [][/\ (initMe /\ ~initMe' /\ user' = NoUser) =>
          <<token', stored', header', isAuthenticated'>> =
            <<NoToken, NoToken, NoToken, FALSE>>
     /\ (submitPc \in {"me", "autoMe"} /\ submitPc' = "idle" /\ user' = NoUser) =>
          /\ <<token', stored', header', isAuthenticated'>> =
               <<NoToken, NoToken, NoToken, FALSE>>
          /\ ~loading'
          /\ authModalVisible' = authModalVisible /\ formVars' = formVars]_vars

\* the login request of a submission was answered, its /me failed
C26_Witness ==
  /\ loginDone /\ stepFailed /\ submitPc = "idle"
  /\ <<token, stored, header, isAuthenticated, user>> =
       <<NoToken, NoToken, NoToken, FALSE, NoUser>>

\* C21: a file is stored as selectedFile and emitted only if its size is at
\* most 10 MB and its type starts with image/; a file that is not leaves
\* the selected file and the emitted events as they were.
C21_OnlyImagesUpTo10MB ==
  [][picks' # picks =>
       IF offered'.size <= 10 * 1024 * 1024 /\ startsWithImage(offered'.type)
         THEN \/ uploads' = uploads + 1 /\ uploadSelectedFile' = offered'
              \/ uploads' = uploads /\ uploadSelectedFile' = uploadSelectedFile
         ELSE /\ uploads' = uploads
              /\ uploadSelectedFile' = uploadSelectedFile
              /\ selectedFile' = selectedFile]_vars

\* a file was accepted, then a file over the limit was offered and refused
C21_Witness ==
  /\ picks = MaxPicks /\ uploads = 1
  /\ offered.size > 10 * 1024 * 1024 /\ startsWithImage(offered.type)
  /\ uploadSelectedFile # NoFile /\ uploadSelectedFile # offered

====
